---- MODULE Spec2Model ----
(***************************************************************************)
(* A model of the agent loop of abhijeethaval/agent-loop:                  *)
(*   Orchestrator.run      src/src/agent_loop/orchestrator.py              *)
(*   AgentPolicy.decide    src/src/agent_loop/policy/policy.py             *)
(*   ToolRegistry          src/src/agent_loop/tools/registry.py            *)
(*   AuditLogger           src/src/agent_loop/audit/logger.py              *)
(*   HITL handlers         src/src/agent_loop/hitl/handler.py              *)
(*   AgentState            src/src/agent_loop/models/state.py              *)
(*                                                                         *)
(* Conventions.  A Python str is a sequence of string fragments (so that   *)
(* f-strings are concatenations and "" is <<>>); the decision type and the *)
(* arguments payload, which the code lowers, strips and parses, are        *)
(* sequences of single characters.  An optional value is None (<<>>) or    *)
(* Some(x) (<<x>>).  A JSON / Python value is a record [kind, keys, len].  *)
(***************************************************************************)
EXTENDS Naturals, Sequences, FiniteSets, TLC

\* ------------------------------------------------------------------ bounds

\* Largest max_steps the configuration is drawn from.
MaxSteps == 2

\* Largest number of register() calls followed in the registry specification.
MaxRegistrations == 2

\* Largest max_steps in the specifications that follow decide from the raw
\* prediction on, or follow several invocations of run.
FewSteps == 1

\* Largest number of invocations of run on one orchestrator and state.
MaxRuns == 2

\* Largest number of entries of an AuditLogger that is called directly.
MaxEntries == 2

\* ------------------------------------------------------------ basic values

None == <<>>

\* The last element of a non-empty sequence (s[-1]).
Last(s) == s[Len(s)]
Some(x) == <<x>>
IsNone(o) == o = <<>>
Get(o) == o[1]

\* Python str(n) for the small integers the model formats.
IntToStr(n) == <<"0", "1", "2", "3", "4", "5", "6", "7", "8", "9">>[n + 1]

\* JSON / Python values, by the features the code looks at.
JObject(keys) == [kind |-> "object", keys |-> keys, len |-> Cardinality(keys)]
JArray(n) == [kind |-> "array", keys |-> {}, len |-> n]
JNumber(n) == [kind |-> "number", keys |-> {}, len |-> n]
JNull == [kind |-> "null", keys |-> {}, len |-> 0]

\* Python truth value of a value (bool(v)), as used by "arguments or {}".
Truthy(v) ==
    CASE v.kind = "object" -> v.keys # {}
      [] v.kind = "array" -> v.len > 0
      [] v.kind = "number" -> v.len # 0
      [] OTHER -> FALSE

\* isinstance(v, dict): what pydantic's dict[str, Any] accepts.
IsMapping(v) == v.kind = "object"

\* --------------------------------------------------------------- str tools

\* str.lower() on one character.
LowerChar(c) ==
    CASE c = "T" -> "t"
      [] c = "O" -> "o"
      [] c = "L" -> "l"
      [] c = "H" -> "h"
      [] c = "I" -> "i"
      [] c = "F" -> "f"
      [] c = "N" -> "n"
      [] c = "A" -> "a"
      [] OTHER -> c

\* str.lower()
Lower(s) == [i \in DOMAIN s |-> LowerChar(s[i])]

IsSpace(c) == c = " "

RECURSIVE LStrip(_)
LStrip(s) == IF s # <<>> /\ IsSpace(Head(s)) THEN LStrip(Tail(s)) ELSE s

RECURSIVE RStrip(_)
RStrip(s) ==
    IF s # <<>> /\ IsSpace(s[Len(s)]) THEN RStrip(SubSeq(s, 1, Len(s) - 1)) ELSE s

\* str.strip()
Strip(s) == RStrip(LStrip(s))

\* ------------------------------------------------------------- ToolResult

\* ToolResult.success(message, data)
ToolResult_success(message, data) ==
    [raised |-> FALSE, status |-> "success", message |-> message, data |-> data]

\* ToolResult.error(message)
ToolResult_error(message) ==
    [raised |-> FALSE, status |-> "error", message |-> message, data |-> None]

\* An exception that leaves a call instead of a value.
Raised(exc) ==
    [raised |-> TRUE, status |-> exc, message |-> <<>>, data |-> None]

\* An exception object, by its class; `request` is HITLPendingError's attribute.
Error(type) == [type |-> type, request |-> <<>>]

\* HITLPendingError(request)
HITLPendingError(request) == [type |-> "HITLPendingError", request |-> request]

NoResult == [raised |-> FALSE, status |-> "unset", message |-> <<>>, data |-> None]

\* ------------------------------------------------------------ ToolRegistry

\* Tool callables, by what a call of them does: the keyword parameters they
\* declare, and whether they return a ToolResult, return some other value,
\* or raise.
calculate ==
    [required |-> {"expression"}, optional |-> {}, does |-> "ToolResult",
     result |-> ToolResult_success(<<"Result: ", "4">>,
                                   Some(JObject({"expression", "result"}))),
     text |-> <<>>]

get_current_time ==
    [required |-> {}, optional |-> {"timezone"}, does |-> "ToolResult",
     result |-> ToolResult_success(<<"Current time (", "UTC", "): ", "now">>,
                                   Some(JObject({"time", "timezone"}))),
     text |-> <<>>]

\* calculate on an expression eval rejects: it returns ToolResult.error itself.
calculate_bad ==
    [required |-> {"expression"}, optional |-> {}, does |-> "ToolResult",
     result |-> ToolResult_error(<<"Failed to evaluate '", "1/0", "': ",
                                   "division by zero">>),
     text |-> <<>>]

\* A tool that returns a value that is not a ToolResult.
plain_tool ==
    [required |-> {}, optional |-> {}, does |-> "value",
     result |-> NoResult, text |-> <<"42">>]

\* A tool whose body raises an Exception that is not a TypeError.
failing_tool ==
    [required |-> {}, optional |-> {}, does |-> "Exception",
     result |-> NoResult, text |-> <<"boom">>]

\* A tool whose body raises TypeError.
type_error_tool ==
    [required |-> {}, optional |-> {}, does |-> "TypeError",
     result |-> NoResult, text |-> <<"unsupported operand">>]

ToolFunctions ==
    {calculate, get_current_time, calculate_bad, plain_tool, failing_tool,
     type_error_tool}

ToolNames == {"calculate", "plain", "boom", "ghost"}

Descriptions == {<<"Evaluates an expression">>}

\* tool(**arguments): Python's call protocol.  ** needs a mapping, and the
\* keywords must fit the signature; otherwise TypeError is raised at the call.
Call(tool, arguments) ==
    IF ~IsMapping(arguments)
    THEN [kind |-> "TypeError", result |-> NoResult,
          text |-> <<"argument after ** must be a mapping">>]
    ELSE IF ~(tool.required \subseteq arguments.keys
              /\ arguments.keys \subseteq (tool.required \cup tool.optional))
    THEN [kind |-> "TypeError", result |-> NoResult,
          text |-> <<"unexpected or missing keyword argument">>]
    ELSE [kind |-> tool.does, result |-> tool.result, text |-> tool.text]

\* execute with the lookup written self._tools[name]: an unknown name raises.
execute_lookup_raises(tools, name, arguments) ==
    IF name \notin DOMAIN tools
    THEN Raised("KeyError")
    ELSE LET r == Call(tools[name], arguments)
         IN  CASE r.kind = "ToolResult" -> r.result
               [] r.kind = "value" -> ToolResult_success(r.text, None)
               [] r.kind = "TypeError" ->
                    ToolResult_error(<<"Invalid arguments for '", name, "': ">> \o r.text)
               [] OTHER ->
                    ToolResult_error(<<"Tool '", name, "' failed: ">> \o r.text)

\* execute without the `except Exception` clause: the tool's exception leaves it.
execute_propagates(tools, name, arguments) ==
    IF name \notin DOMAIN tools
    THEN ToolResult_error(<<"Tool '", name, "' not found">>)
    ELSE LET r == Call(tools[name], arguments)
         IN  CASE r.kind = "ToolResult" -> r.result
               [] r.kind = "value" -> ToolResult_success(r.text, None)
               [] r.kind = "TypeError" ->
                    ToolResult_error(<<"Invalid arguments for '", name, "': ">> \o r.text)
               [] OTHER -> Raised("Exception")

\* execute answering an unknown name with an empty success instead of the
\* not-found error.
execute_unknown_ignored(tools, name, arguments) ==
    IF name \notin DOMAIN tools
    THEN ToolResult_success(<<>>, None)
    ELSE LET r == Call(tools[name], arguments)
         IN  CASE r.kind = "ToolResult" -> r.result
               [] r.kind = "value" -> ToolResult_success(r.text, None)
               [] r.kind = "TypeError" ->
                    ToolResult_error(<<"Invalid arguments for '", name, "': ">> \o r.text)
               [] OTHER ->
                    ToolResult_error(<<"Tool '", name, "' failed: ">> \o r.text)

\* ToolRegistry.execute(name, arguments), on a registry whose _tools is `tools`.
execute(tools, name, arguments) ==
    IF name \notin DOMAIN tools
    THEN ToolResult_error(<<"Tool '", name, "' not found">>)
    ELSE LET r == Call(tools[name], arguments)
         IN  CASE r.kind = "ToolResult" -> r.result
               [] r.kind = "value" -> ToolResult_success(r.text, None)
               [] r.kind = "TypeError" ->
                    ToolResult_error(<<"Invalid arguments for '", name, "': ">> \o r.text)
               [] OTHER ->
                    ToolResult_error(<<"Tool '", name, "' failed: ">> \o r.text)

\* The registered tools a call execute(name, ...) invokes: the one looked up
\* under the name, when there is one.
invocations(tools, name) == IF name \in DOMAIN tools THEN <<name>> ELSE <<>>

\* The registry a run is given: the tools registered before run is called.
EmptyFunction == [n \in {} |-> calculate]

RunRegistry ==
    ("calculate" :> calculate) @@ ("plain" :> plain_tool) @@ ("boom" :> failing_tool)

\* ------------------------------------------------------------ AgentPolicy

TOOL == <<"t", "o", "o", "l">>
HITL == <<"h", "i", "t", "l">>
FINAL == <<"f", "i", "n", "a", "l">>

\* json.loads on the payloads the oracle is drawn from: the value, or a
\* JSONDecodeError.  The payload is a sequence of fragments; blanks are " ".
JsonLoads(text) ==
    LET t == Strip(text)
    IN  CASE t = <<"{}">> -> [ok |-> TRUE, value |-> JObject({})]
          [] t = <<"{\"expression\": \"2+2\"}">> ->
               [ok |-> TRUE, value |-> JObject({"expression"})]
          [] t = <<"{\"bogus\": 1}">> -> [ok |-> TRUE, value |-> JObject({"bogus"})]
          [] t = <<"[1, 2]">> -> [ok |-> TRUE, value |-> JArray(2)]
          [] t = <<"[]">> -> [ok |-> TRUE, value |-> JArray(0)]
          [] t = <<"7">> -> [ok |-> TRUE, value |-> JNumber(7)]
          [] t = <<"null">> -> [ok |-> TRUE, value |-> JNull]
          [] OTHER -> [ok |-> FALSE, value |-> JNull]

\* DecisionOutput.__init__
DecisionOutput(rationale, decision_type, selected_tool, arguments, hitl_request, final_response) ==
    [rationale |-> rationale,
     decision_type |-> decision_type,
     selected_tool |-> selected_tool,
     arguments |-> IF Truthy(arguments) THEN arguments ELSE JObject({}),
     hitl_request |-> hitl_request,
     final_response |-> final_response]

\* decide passing the raw fields through whatever the resolved type is.
decide_passes_fields(result) ==
    LET parsed == JsonLoads(result.arguments)
        arguments ==
            IF result.arguments # <<>> /\ Strip(result.arguments) # <<>> /\ parsed.ok
            THEN parsed.value
            ELSE JObject({})
        lowered == Strip(Lower(result.decision_type))
        decision_type == IF lowered \in {TOOL, HITL, FINAL} THEN lowered ELSE FINAL
    IN  DecisionOutput(result.rationale, decision_type, result.selected_tool,
                       arguments, result.hitl_request, result.final_response)

\* decide answering a payload json.loads rejects with a Final decision.
decide_parse_failure_final(result) ==
    LET parsed == JsonLoads(result.arguments)
        tried == result.arguments # <<>> /\ Strip(result.arguments) # <<>>
        arguments == IF tried /\ parsed.ok THEN parsed.value ELSE JObject({})
        lowered == Strip(Lower(result.decision_type))
        decision_type ==
            IF lowered \in {TOOL, HITL, FINAL} /\ ~(tried /\ ~parsed.ok)
            THEN lowered
            ELSE FINAL
    IN  DecisionOutput(
            result.rationale,
            decision_type,
            IF decision_type = TOOL THEN result.selected_tool ELSE "",
            IF decision_type = TOOL THEN arguments ELSE JObject({}),
            IF decision_type = HITL THEN result.hitl_request ELSE <<>>,
            IF decision_type = FINAL THEN result.final_response ELSE <<>>)

\* AgentPolicy.decide, from the raw prediction `result` on.
decide(result) ==
    LET parsed == JsonLoads(result.arguments)
        arguments ==
            IF result.arguments # <<>> /\ Strip(result.arguments) # <<>> /\ parsed.ok
            THEN parsed.value
            ELSE JObject({})
        lowered == Strip(Lower(result.decision_type))
        decision_type == IF lowered \in {TOOL, HITL, FINAL} THEN lowered ELSE FINAL
    IN  DecisionOutput(
            result.rationale,
            decision_type,
            IF decision_type = TOOL THEN result.selected_tool ELSE "",
            IF decision_type = TOOL THEN arguments ELSE JObject({}),
            IF decision_type = HITL THEN result.hitl_request ELSE <<>>,
            IF decision_type = FINAL THEN result.final_response ELSE <<>>)

\* The raw predictions the oracle is drawn from.
RawTypes ==
    {TOOL, <<" ", "T", "o", "o", "l", " ">>, HITL, <<"H", "I", "T", "L">>,
     FINAL, <<"T", "o", "o", "o">>}

RawPayloads ==
    {<<>>, <<" ">>, <<"{}">>, <<" ", "{\"expression\": \"2+2\"}">>,
     <<"{\"bogus\": 1}">>, <<"[1, 2]">>, <<"{not json">>}

RawResponses ==
    [rationale : {<<"because">>},
     decision_type : RawTypes,
     selected_tool : {"calculate", "plain", "boom", "ghost"},
     arguments : RawPayloads,
     hitl_request : {<<"Which city?">>},
     final_response : {<<>>, <<"done">>}]

\* The Python types of the fields decide calls str methods on or reads
\* unconditionally: "str", "None", "int" (a non-zero int) or "missing" (the
\* prediction has no such attribute).
WellFormed == [rationale |-> "str", decision_type |-> "str", arguments |-> "str"]

\* One field of the prediction is not the string the signature declares.
MalformedTypes ==
    {[WellFormed EXCEPT !.rationale = "missing"]}
        \cup {[WellFormed EXCEPT !.decision_type = t] : t \in {"None", "int", "missing"}}
        \cup {[WellFormed EXCEPT !.arguments = t] : t \in {"None", "int", "missing"}}

\* A prediction with the text fields of r and the field types t; a field that
\* is not a str has no text.
Prediction(r, t) ==
    [rationale |-> IF t.rationale = "str" THEN r.rationale ELSE <<>>,
     decision_type |-> IF t.decision_type = "str" THEN r.decision_type ELSE <<>>,
     selected_tool |-> r.selected_tool,
     arguments |-> IF t.arguments = "str" THEN r.arguments ELSE <<>>,
     hitl_request |-> r.hitl_request,
     final_response |-> r.final_response,
     types |-> t]

\* The predictions the oracle call returns when decide is followed from the
\* raw prediction on: every string-typed one over two tool names, and the
\* malformed ones.
Predictions ==
    {Prediction(r, WellFormed) :
        r \in {q \in RawResponses : q.selected_tool \in {"calculate", "ghost"}}}
    \cup {Prediction(r, t) :
            r \in {q \in RawResponses :
                      /\ q.selected_tool = "calculate"
                      /\ q.final_response = <<"done">>
                      /\ q.arguments \in {<<"{}">>, <<"{not json">>}
                      /\ q.decision_type \in {TOOL, FINAL, <<"T", "o", "o", "o">>}},
            t \in MalformedTypes}

\* Whether decide raises on prediction p: AttributeError from reading a
\* missing attribute (lines 86, 94, 100), from result.arguments.strip() on a
\* truthy non-str (line 86), or from result.decision_type.lower() on a
\* non-str (line 94).
decide_raises(p) ==
    \/ p.types.arguments \in {"missing", "int"}
    \/ p.types.decision_type # "str"
    \/ p.types.rationale = "missing"

\* decide's `result` before the oracle was ever called.
NoPrediction ==
    [rationale |-> <<>>, decision_type |-> <<>>, selected_tool |-> "",
     arguments |-> <<>>, hitl_request |-> <<>>, final_response |-> <<>>,
     types |-> WellFormed]

\* The raw predictions whose decision is one of the three typed variants of the
\* data model: a Tool decision carries a mapping (dict[str, Any]).
TypedResponses == {r \in RawResponses : IsMapping(decide(r).arguments)}

\* ------------------------------------------------------------- AgentState

\* HistoryEntry(step, actor, action, arguments, outcome, result): pydantic
\* validates the fields; arguments must be None or a dict.
HistoryEntry(step, actor, action, arguments, outcome, result) ==
    [step |-> step, actor |-> actor, action |-> action, arguments |-> arguments,
     outcome |-> outcome, result |-> result]

\* AgentState.add_history_entry on history h: the new history, or the
\* ValidationError HistoryEntry raises.
add_history_entry(h, step, actor, action, outcome, result, arguments) ==
    IF ~IsNone(arguments) /\ ~IsMapping(Get(arguments))
    THEN [raised |-> TRUE, history |-> h]
    ELSE [raised |-> FALSE,
          history |-> Append(h, HistoryEntry(step, actor, action, arguments,
                                             outcome, result))]

\* ------------------------------------------------------------- AuditLogger

Goal == <<"find the answer">>

\* The policy_context dict run passes to log_decision.
PolicyContext ==
    [org_policies |-> <<"be safe">>, industry_rules |-> <<>>,
     domain_guidelines |-> <<>>]

\* Orchestrator._get_decision_details merged with decision_type and rationale,
\* as log_decision builds decision_output.
decision_output(d) ==
    CASE d.decision_type = TOOL ->
           [decision_type |-> d.decision_type, rationale |-> d.rationale,
            selected_tool |-> d.selected_tool, arguments |-> d.arguments]
      [] d.decision_type = HITL ->
           [decision_type |-> d.decision_type, rationale |-> d.rationale,
            hitl_request |-> d.hitl_request]
      [] OTHER ->
           [decision_type |-> d.decision_type, rationale |-> d.rationale,
            final_response |-> d.final_response]

\* AuditEntry.__init__ as log_decision calls it.
AuditEntry(step, timestamp, goal, history, d) ==
    [step |-> step,
     timestamp |-> timestamp,
     input_snapshot |-> [goal |-> goal, history_length |-> Len(history),
                         policy_context |-> PolicyContext],
     decision_output |-> decision_output(d),
     outcome |-> None]

\* One line of the session file: json.dumps(entry.to_dict()).
to_line(entry) == [json |-> entry]

\* AuditLogger._persist_all: the file rewritten from the entries.
persist_all(es) == [i \in DOMAIN es |-> to_line(es[i])]

\* The search running from the start of the log: the first entry of the step.
find_entry_first(es, step) ==
    IF \E i \in DOMAIN es : es[i].step = step
    THEN CHOOSE i \in DOMAIN es :
            /\ es[i].step = step
            /\ \A j \in DOMAIN es : es[j].step = step => i <= j
    ELSE 0

\* The index log_outcome's reversed search stops at: the last entry whose
\* step is `step`, or 0 when there is none.
find_entry(es, step) ==
    IF \E i \in DOMAIN es : es[i].step = step
    THEN CHOOSE i \in DOMAIN es :
            /\ es[i].step = step
            /\ \A j \in DOMAIN es : es[j].step = step => j <= i
    ELSE 0

\* The in-memory effect of AuditLogger.log_outcome.
log_outcome(es, step, outcome_type, status, result, data) ==
    LET i == find_entry(es, step)
    IN  IF i = 0
        THEN es
        ELSE [es EXCEPT ![i].outcome =
                 Some([type |-> outcome_type, status |-> status,
                       result |-> result, data |-> data])]

\* log_decision keeping one entry per step: an entry of the same step is replaced.
log_decision_replaces_step(es, step, timestamp, goal, history, d) ==
    IF \E i \in DOMAIN es : es[i].step = step
    THEN [i \in DOMAIN es |->
             IF es[i].step = step
             THEN AuditEntry(step, timestamp, goal, history, d)
             ELSE es[i]]
    ELSE Append(es, AuditEntry(step, timestamp, goal, history, d))

\* The in-memory effect of AuditLogger.log_decision (lines 108-122).
log_decision(es, step, timestamp, goal, history, d) ==
    Append(es, AuditEntry(step, timestamp, goal, history, d))

\* _persist_entry opening the file with "w": the new line replaces the file.
persist_entry_overwrites(file, dir, entry) == IF dir THEN <<to_line(entry)>> ELSE file

\* AuditLogger._persist_entry(entry) on the session file, the write succeeding:
\* one line appended when a directory is configured.
persist_entry(file, dir, entry) == IF dir THEN Append(file, to_line(entry)) ELSE file

\* AuditEntry(...) from json.loads(line), as load_session builds it.
from_line(line) == line.json

\* AuditLogger.export_session(): a dict of the session id and the entries' dicts.
export_session(es) == [kind |-> "dict", entries |-> es]

\* The path of a session file.
SessionFile == [kind |-> "path", entries |-> <<>>]

\* AuditLogger.load_session(source) when the file at the path holds `file`:
\* Path(source) raises TypeError for anything that is not a path.
load_session(source, file) ==
    IF source.kind # "path"
    THEN [raised |-> TRUE, entries |-> <<>>]
    ELSE [raised |-> FALSE, entries |-> [i \in DOMAIN file |-> from_line(file[i])]]

\* ------------------------------------------------------------------ state

VARIABLES
    pc,              \* where run is: idle, loop, decided, logged, ..., returned, raised
    max_steps,       \* OrchestratorConfig.max_steps
    log_dir,         \* whether an audit directory is configured
    hitl,            \* the HITL handler variant: "callback" or "async"
    step,            \* run's local step counter
    history,         \* AgentState.history
    final_response,  \* AgentState.final_response
    initial_final,   \* final_response of the state run was given
    tools,           \* ToolRegistry._tools
    descriptions,    \* ToolRegistry._descriptions
    entries,         \* AuditLogger._entries
    log_file,        \* the lines of the session file
    now,             \* the clock datetime.now() reads
    pending_request, \* AsyncHITLHandler._pending_request
    snapshot,        \* what the last oracle call was given: history, and run's step
    decision,        \* run's local `decision`
    result,          \* run's local `result` (or the value of the last execute call)
    human_input,     \* run's local `human_input`
    oracle_calls,    \* calls of the external oracle so far
    tool_calls,      \* the (name, arguments) pairs execute was called with
    hitl_calls,      \* calls of request_human_input so far
    completed,       \* the texts the stream handler's on_complete received
    registrations,   \* register() calls so far
    prediction,      \* decide's local `result`: the oracle's latest raw prediction
    invoked,         \* the registered tools the latest execute call invoked
    response,        \* AsyncHITLHandler._response
    runs,            \* invocations of run so far
    exception,       \* the exception that left run (or the latest call), if one did
    goal,            \* AgentState.goal
    user_messages,   \* AgentState.user_messages
    loaded,          \* the latest load_session call: its source and what it returned
    same_session,    \* whether a second logger has this one's log_dir and session_id
    peer_pc,         \* where the second orchestrator's run is
    peer_step,       \* the second orchestrator's step counter
    peer_entries,    \* the second orchestrator's AuditLogger._entries
    peer_file        \* the second logger's session file, when it is not this one's

vars ==
    <<pc, max_steps, log_dir, hitl, step, history, final_response, initial_final,
      tools, descriptions, entries, log_file, now, pending_request, snapshot,
      decision, result, human_input, oracle_calls, tool_calls, hitl_calls, completed,
      registrations, prediction, invoked, response, runs, exception, goal,
      user_messages, loaded, same_session, peer_pc, peer_step, peer_entries,
      peer_file>>

configVars == <<max_steps, log_dir, hitl, initial_final, tools, descriptions,
                registrations>>

\* The second orchestrator, as far as its AuditLogger shows it.
peerVars == <<same_session, peer_pc, peer_step, peer_entries, peer_file>>

\* What no step of this orchestrator's run changes: the state's inputs, a
\* replayed log, and the second orchestrator.
otherVars == <<goal, user_messages, loaded, peerVars>>

\* What only the host of a run, or the observation of the oracle, changes.
hostVars == <<prediction, response, runs>>

NoDecision == DecisionOutput(<<>>, <<>>, "", JObject({}), <<>>, <<>>)

Answers == {<<"Paris">>}

\* The state after Orchestrator.__init__ and AgentState(goal=...), before run.
InitWith(maxima, handlers) ==
    /\ pc = "idle"
    /\ max_steps \in maxima
    /\ log_dir \in BOOLEAN
    /\ hitl \in handlers
    /\ step = 0
    /\ history = <<>>
    /\ final_response \in {None, Some(<<"stale">>)}
    /\ initial_final = final_response
    /\ tools = RunRegistry
    /\ descriptions = [n \in DOMAIN RunRegistry |-> <<>>]
    /\ entries = <<>>
    /\ log_file = <<>>
    /\ now = 0
    /\ pending_request = None
    /\ snapshot = [history |-> <<>>, step |-> 0]
    /\ decision = NoDecision
    /\ result = NoResult
    /\ human_input = <<>>
    /\ oracle_calls = 0
    /\ tool_calls = <<>>
    /\ hitl_calls = 0
    /\ completed = <<>>
    /\ registrations = 0
    /\ prediction = NoPrediction
    /\ invoked = <<>>
    /\ response = None
    /\ runs = 0
    /\ exception = None
    /\ goal = Goal
    /\ user_messages = <<"hello">>
    /\ loaded = None
    /\ same_session = FALSE
    /\ peer_pc = "idle"
    /\ peer_step = 0
    /\ peer_entries = <<>>
    /\ peer_file = <<>>

Init == InitWith(0 .. MaxSteps, {"callback", "async"})

\* ---------------------------------------------------- Orchestrator.run

\* The loop condition off by one: while step <= max_steps.
LoopCondition_OffByOne(s, m) == s <= m

\* The loop condition: while step < self._config.max_steps.
LoopCondition(s, m) == s < m

\* run is called: step = 0 (orchestrator.py line 99).
Run ==
    /\ pc = "idle"
    /\ step' = 0
    /\ runs' = runs + 1
    /\ pc' = "loop"
    /\ UNCHANGED <<history, final_response, entries, log_file, now,
                   pending_request, decision, result, human_input, oracle_calls,
                   tool_calls, hitl_calls, completed>>
    /\ UNCHANGED <<configVars, otherVars, snapshot, prediction, response, invoked, exception>>

\* while step < max_steps: self._policy.decide(...) returns a decision.
Oracle(responses) ==
    /\ pc = "loop"
    /\ LoopCondition(step, max_steps)
    /\ \E raw \in responses : decision' = decide(raw)
    /\ snapshot' = [history |-> history, step |-> step]
    /\ oracle_calls' = oracle_calls + 1
    /\ pc' = "decided"
    /\ UNCHANGED <<step, history, final_response, entries, log_file, now,
                   pending_request, result, human_input, tool_calls, hitl_calls,
                   completed>>
    /\ UNCHANGED <<configVars, otherVars, hostVars, invoked, exception>>

OracleReturns == Oracle(RawResponses)

\* run catching the oracle's failure and returning an error text as the response.
OracleFails_Swallowed ==
    /\ pc = "loop"
    /\ LoopCondition(step, max_steps)
    /\ oracle_calls' = oracle_calls + 1
    /\ final_response' = Some(<<"oracle call failed">>)
    /\ pc' = "returned"
    /\ UNCHANGED <<step, history, entries, log_file, now, pending_request,
                   decision, result, human_input, tool_calls, hitl_calls,
                   completed>>
    /\ UNCHANGED <<configVars, otherVars, snapshot, hostVars, invoked, exception>>

\* The external oracle call fails: the exception leaves decide and run.
OracleFails ==
    /\ pc = "loop"
    /\ LoopCondition(step, max_steps)
    /\ oracle_calls' = oracle_calls + 1
    /\ exception' = Some(Error("OracleError"))
    /\ pc' = "raised"
    /\ UNCHANGED <<step, history, final_response, entries, log_file, now,
                   pending_request, decision, result, human_input, tool_calls,
                   hitl_calls, completed>>
    /\ UNCHANGED <<configVars, otherVars, snapshot, hostVars, invoked>>

\* Reaching the bound logged as one more audit entry.
Exhausted_LogsEntry ==
    /\ pc = "loop"
    /\ ~LoopCondition(step, max_steps)
    /\ final_response' =
          Some(<<"Agent terminated after ", IntToStr(max_steps), " steps ",
                 "without reaching a final response.">>)
    /\ entries' = log_decision(entries, step, now, goal, history, decision)
    /\ pc' = "returned"
    /\ UNCHANGED <<step, history, log_file, now, pending_request,
                   decision, result, human_input, oracle_calls, tool_calls,
                   hitl_calls, completed>>
    /\ UNCHANGED <<configVars, otherVars, snapshot, hostVars, invoked, exception>>

\* The else branch without the assignment: run returns with no response set.
Exhausted_NoResponse ==
    /\ pc = "loop"
    /\ ~(step < max_steps)
    /\ pc' = "returned"
    /\ UNCHANGED <<step, history, final_response, entries, log_file, now,
                   pending_request, decision, result, human_input, oracle_calls,
                   tool_calls, hitl_calls, completed>>
    /\ UNCHANGED <<configVars, otherVars, snapshot, hostVars, invoked, exception>>

\* Reaching the bound raising an error instead of setting the message.
Exhausted_Raises ==
    /\ pc = "loop"
    /\ ~LoopCondition(step, max_steps)
    /\ exception' = Some(Error("RuntimeError"))
    /\ pc' = "raised"
    /\ UNCHANGED <<step, history, final_response, entries, log_file, now,
                   pending_request, decision, result, human_input, oracle_calls,
                   tool_calls, hitl_calls, completed>>
    /\ UNCHANGED <<configVars, otherVars, snapshot, hostVars, invoked>>

\* The while loop's else branch: max steps reached.
Exhausted ==
    /\ pc = "loop"
    /\ ~LoopCondition(step, max_steps)
    /\ final_response' =
          Some(<<"Agent terminated after ", IntToStr(max_steps), " steps ",
                 "without reaching a final response.">>)
    /\ pc' = "returned"
    /\ UNCHANGED <<step, history, entries, log_file, now, pending_request,
                   decision, result, human_input, oracle_calls, tool_calls,
                   hitl_calls, completed>>
    /\ UNCHANGED <<configVars, otherVars, snapshot, hostVars, invoked, exception>>

\* run without the log_decision call.
LogDecision_Skipped ==
    /\ pc = "decided"
    /\ pc' = "logged"
    /\ UNCHANGED <<step, history, final_response, entries, log_file, now,
                   pending_request, decision, result, human_input, oracle_calls,
                   tool_calls, hitl_calls, completed>>
    /\ UNCHANGED <<configVars, otherVars, snapshot, hostVars, invoked, exception>>

\* self._audit.log_decision(step=step, ...): append and persist the entry.
LogDecision ==
    /\ pc = "decided"
    /\ entries' = log_decision(entries, step, now, goal, history, decision)
    /\ log_file' = persist_entry(log_file, log_dir, Last(entries'))
    /\ now' = now + 1
    /\ pc' = "logged"
    /\ UNCHANGED <<step, history, final_response, pending_request, decision,
                   result, human_input, oracle_calls, tool_calls, hitl_calls,
                   completed>>
    /\ UNCHANGED <<configVars, otherVars, snapshot, hostVars, invoked, exception>>

\* The Final branch without its break: the loop goes round again.
Finalize_NoBreak ==
    /\ pc = "logged"
    /\ decision.decision_type = FINAL
    /\ final_response' = Some(decision.final_response)
    /\ completed' = Append(completed, decision.final_response)
    /\ pc' = "loop"
    /\ UNCHANGED <<step, history, entries, log_file, now, pending_request,
                   decision, result, human_input, oracle_calls, tool_calls,
                   hitl_calls>>
    /\ UNCHANGED <<configVars, otherVars, snapshot, hostVars, invoked, exception>>

\* if decision.decision_type == "final": set the response, on_complete, break.
Finalize ==
    /\ pc = "logged"
    /\ decision.decision_type = FINAL
    /\ final_response' = Some(decision.final_response)
    /\ completed' = Append(completed, decision.final_response)
    /\ pc' = "returned"
    /\ UNCHANGED <<step, history, entries, log_file, now, pending_request,
                   decision, result, human_input, oracle_calls, tool_calls,
                   hitl_calls>>
    /\ UNCHANGED <<configVars, otherVars, snapshot, hostVars, invoked, exception>>

\* The HITL branch incrementing the step first, as the tool branch does.
HitlAsk_IncrementsFirst ==
    /\ pc = "logged"
    /\ decision.decision_type = HITL
    /\ step' = step + 1
    /\ history' = add_history_entry(history, step', "agent", "hitl_request",
                                    "success", decision.hitl_request, None).history
    /\ pc' = "hitl_asked"
    /\ UNCHANGED <<final_response, entries, log_file, now, pending_request,
                   decision, result, human_input, oracle_calls, tool_calls,
                   hitl_calls, completed>>
    /\ UNCHANGED <<configVars, otherVars, snapshot, hostVars, invoked, exception>>

\* HITL: record the agent's question in history (lines 146-152).
HitlAsk ==
    /\ pc = "logged"
    /\ decision.decision_type = HITL
    /\ history' = add_history_entry(history, step, "agent", "hitl_request",
                                    "success", decision.hitl_request, None).history
    /\ pc' = "hitl_asked"
    /\ UNCHANGED <<step, final_response, entries, log_file, now, pending_request,
                   decision, result, human_input, oracle_calls, tool_calls,
                   hitl_calls, completed>>
    /\ UNCHANGED <<configVars, otherVars, snapshot, hostVars, invoked, exception>>

\* self._hitl.request_human_input(...) of a synchronous handler returns a string.
HitlAnswered ==
    /\ pc = "hitl_asked"
    /\ hitl = "callback"
    /\ human_input' \in Answers
    /\ hitl_calls' = hitl_calls + 1
    /\ pc' = "hitl_answered"
    /\ UNCHANGED <<step, history, final_response, entries, log_file, now,
                   pending_request, decision, result, oracle_calls, tool_calls,
                   completed>>
    /\ UNCHANGED <<configVars, otherVars, snapshot, hostVars, invoked, exception>>

\* The pending request logged as the decision's outcome before the raise.
HitlPending_LogsOutcome ==
    /\ pc = "hitl_asked"
    /\ hitl = "async"
    /\ pending_request' = Some(decision.hitl_request)
    /\ hitl_calls' = hitl_calls + 1
    /\ entries' = log_outcome(entries, step, "hitl", "pending",
                              decision.hitl_request, None)
    /\ log_file' = IF log_dir /\ find_entry(entries, step) # 0
                   THEN persist_all(entries')
                   ELSE log_file
    /\ exception' = Some(HITLPendingError(decision.hitl_request))
    /\ pc' = "raised"
    /\ UNCHANGED <<step, history, final_response, now,
                   decision, result, human_input, oracle_calls, tool_calls,
                   completed>>
    /\ UNCHANGED <<configVars, otherVars, snapshot, hostVars, invoked>>

\* The queued handler raising without recording the request.
HitlPending_NotRecorded ==
    /\ pc = "hitl_asked"
    /\ hitl = "async"
    /\ hitl_calls' = hitl_calls + 1
    /\ exception' = Some(HITLPendingError(decision.hitl_request))
    /\ pc' = "raised"
    /\ UNCHANGED <<step, history, final_response, entries, log_file, now,
                   pending_request, decision, result, human_input, oracle_calls,
                   tool_calls, completed>>
    /\ UNCHANGED <<configVars, otherVars, snapshot, hostVars, invoked>>

\* AsyncHITLHandler.request_human_input: record the request, raise HITLPendingError.
HitlPending ==
    /\ pc = "hitl_asked"
    /\ hitl = "async"
    /\ pending_request' = Some(decision.hitl_request)
    /\ hitl_calls' = hitl_calls + 1
    /\ exception' = Some(HITLPendingError(decision.hitl_request))
    /\ pc' = "raised"
    /\ UNCHANGED <<step, history, final_response, entries, log_file, now,
                   decision, result, human_input, oracle_calls, tool_calls,
                   completed>>
    /\ UNCHANGED <<configVars, otherVars, snapshot, hostVars, invoked>>

\* The HITL branch writing the response over the request's entry.
HitlRecord_ReplacesRequest ==
    /\ pc = "hitl_answered"
    /\ history' = [history EXCEPT ![Len(history)] =
                       HistoryEntry(step, "human", "hitl_response", None,
                                    "feedback", human_input)]
    /\ pc' = "hitl_recorded"
    /\ UNCHANGED <<step, final_response, entries, log_file, now, pending_request,
                   decision, result, human_input, oracle_calls, tool_calls,
                   hitl_calls, completed>>
    /\ UNCHANGED <<configVars, otherVars, snapshot, hostVars, invoked, exception>>

\* HITL: record the human's response in history (lines 158-164).
HitlRecord ==
    /\ pc = "hitl_answered"
    /\ history' = add_history_entry(history, step, "human", "hitl_response",
                                    "feedback", human_input, None).history
    /\ pc' = "hitl_recorded"
    /\ UNCHANGED <<step, final_response, entries, log_file, now, pending_request,
                   decision, result, human_input, oracle_calls, tool_calls,
                   hitl_calls, completed>>
    /\ UNCHANGED <<configVars, otherVars, snapshot, hostVars, invoked, exception>>

\* The HITL branch logging the outcome under the step after the decision's.
HitlLogOutcome_NextStep ==
    /\ pc = "hitl_recorded"
    /\ entries' = log_outcome(entries, step + 1, "hitl", "feedback", human_input,
                              None)
    /\ log_file' = IF log_dir /\ find_entry(entries, step + 1) # 0
                   THEN persist_all(entries')
                   ELSE log_file
    /\ pc' = "hitl_logged"
    /\ UNCHANGED <<step, history, final_response, now, pending_request, decision,
                   result, human_input, oracle_calls, tool_calls, hitl_calls,
                   completed>>
    /\ UNCHANGED <<configVars, otherVars, snapshot, hostVars, invoked, exception>>

\* HITL: self._audit.log_outcome(step=step, "hitl", "feedback", human_input).
HitlLogOutcome ==
    /\ pc = "hitl_recorded"
    /\ entries' = log_outcome(entries, step, "hitl", "feedback", human_input, None)
    /\ log_file' = IF log_dir /\ find_entry(entries, step) # 0
                   THEN persist_all(entries')
                   ELSE log_file
    /\ pc' = "hitl_logged"
    /\ UNCHANGED <<step, history, final_response, now, pending_request, decision,
                   result, human_input, oracle_calls, tool_calls, hitl_calls,
                   completed>>
    /\ UNCHANGED <<configVars, otherVars, snapshot, hostVars, invoked, exception>>

\* The HITL branch without its step += 1.
HitlAdvance_NoIncrement ==
    /\ pc = "hitl_logged"
    /\ pc' = "loop"
    /\ UNCHANGED <<step, history, final_response, entries, log_file, now,
                   pending_request, decision, result, human_input, oracle_calls,
                   tool_calls, hitl_calls, completed>>
    /\ UNCHANGED <<configVars, otherVars, snapshot, hostVars, invoked, exception>>

\* HITL: step += 1; continue.
HitlAdvance ==
    /\ pc = "hitl_logged"
    /\ step' = step + 1
    /\ pc' = "loop"
    /\ UNCHANGED <<history, final_response, entries, log_file, now,
                   pending_request, decision, result, human_input, oracle_calls,
                   tool_calls, hitl_calls, completed>>
    /\ UNCHANGED <<configVars, otherVars, snapshot, hostVars, invoked, exception>>

\* Tool: step += 1 (line 179).
ToolAdvance ==
    /\ pc = "logged"
    /\ decision.decision_type = TOOL
    /\ step' = step + 1
    /\ pc' = "tool_stepped"
    /\ UNCHANGED <<history, final_response, entries, log_file, now,
                   pending_request, decision, result, human_input, oracle_calls,
                   tool_calls, hitl_calls, completed>>
    /\ UNCHANGED <<configVars, otherVars, snapshot, hostVars, invoked, exception>>

\* Tool: result = self._tools.execute(selected_tool, arguments).
ToolExecute ==
    /\ pc = "tool_stepped"
    /\ result' = execute(tools, decision.selected_tool, decision.arguments)
    /\ tool_calls' = Append(tool_calls, <<decision.selected_tool, decision.arguments>>)
    /\ invoked' = invocations(tools, decision.selected_tool)
    /\ exception' = IF result'.raised THEN Some(Error(result'.status)) ELSE exception
    /\ pc' = IF result'.raised THEN "raised" ELSE "tool_executed"
    /\ UNCHANGED <<step, history, final_response, entries, log_file, now,
                   pending_request, decision, human_input, oracle_calls,
                   hitl_calls, completed>>
    /\ UNCHANGED <<configVars, otherVars, snapshot, hostVars>>

\* The tool branch without its add_history_entry call.
ToolRecord_NoAppend ==
    /\ pc = "tool_executed"
    /\ pc' = "tool_recorded"
    /\ UNCHANGED <<step, history, final_response, entries, log_file, now,
                   pending_request, decision, result, human_input, oracle_calls,
                   tool_calls, hitl_calls, completed>>
    /\ UNCHANGED <<configVars, otherVars, snapshot, hostVars, invoked, exception>>

\* The tool branch recording outcome="success" whatever the result's status.
ToolRecord_AlwaysSuccess ==
    /\ pc = "tool_executed"
    /\ LET r == add_history_entry(history, step, "tool", decision.selected_tool,
                                  "success", result.message,
                                  Some(decision.arguments))
       IN  /\ history' = r.history
           /\ exception' = IF r.raised THEN Some(Error("ValidationError"))
                                        ELSE exception
           /\ pc' = IF r.raised THEN "raised" ELSE "tool_recorded"
    /\ UNCHANGED <<step, final_response, entries, log_file, now, pending_request,
                   decision, result, human_input, oracle_calls, tool_calls,
                   hitl_calls, completed>>
    /\ UNCHANGED <<configVars, otherVars, snapshot, hostVars, invoked>>

\* The tool branch recording the step the decision was made at.
ToolRecord_StepOfDecision ==
    /\ pc = "tool_executed"
    /\ LET r == add_history_entry(history, step - 1, "tool",
                                  decision.selected_tool, result.status,
                                  result.message, Some(decision.arguments))
       IN  /\ history' = r.history
           /\ exception' = IF r.raised THEN Some(Error("ValidationError"))
                                        ELSE exception
           /\ pc' = IF r.raised THEN "raised" ELSE "tool_recorded"
    /\ UNCHANGED <<step, final_response, entries, log_file, now, pending_request,
                   decision, result, human_input, oracle_calls, tool_calls,
                   hitl_calls, completed>>
    /\ UNCHANGED <<configVars, otherVars, snapshot, hostVars, invoked>>

\* The tool branch recording the result's data next to its message.
ToolRecord_DataInHistory ==
    /\ pc = "tool_executed"
    /\ LET r == add_history_entry(history, step, "tool", decision.selected_tool,
                                  result.status,
                                  IF IsNone(result.data)
                                  THEN result.message
                                  ELSE result.message \o <<"data">>,
                                  Some(decision.arguments))
       IN  /\ history' = r.history
           /\ exception' = IF r.raised THEN Some(Error("ValidationError"))
                                        ELSE exception
           /\ pc' = IF r.raised THEN "raised" ELSE "tool_recorded"
    /\ UNCHANGED <<step, final_response, entries, log_file, now, pending_request,
                   decision, result, human_input, oracle_calls, tool_calls,
                   hitl_calls, completed>>
    /\ UNCHANGED <<configVars, otherVars, snapshot, hostVars, invoked>>

\* Tool: state.add_history_entry(step, "tool", selected_tool, arguments, ...).
ToolRecord ==
    /\ pc = "tool_executed"
    /\ LET r == add_history_entry(history, step, "tool", decision.selected_tool,
                                  result.status, result.message,
                                  Some(decision.arguments))
       IN  /\ history' = r.history
           /\ exception' = IF r.raised THEN Some(Error("ValidationError"))
                                        ELSE exception
           /\ pc' = IF r.raised THEN "raised" ELSE "tool_recorded"
    /\ UNCHANGED <<step, final_response, entries, log_file, now, pending_request,
                   decision, result, human_input, oracle_calls, tool_calls,
                   hitl_calls, completed>>
    /\ UNCHANGED <<configVars, otherVars, snapshot, hostVars, invoked>>

\* The tool branch also writing the tool's message as the response.
ToolLogOutcome_WritesResponse ==
    /\ pc = "tool_recorded"
    /\ entries' = log_outcome(entries, step, "tool", result.status,
                              result.message, result.data)
    /\ log_file' = IF log_dir /\ find_entry(entries, step) # 0
                   THEN persist_all(entries')
                   ELSE log_file
    /\ final_response' = Some(result.message)
    /\ pc' = "loop"
    /\ UNCHANGED <<step, history, now, pending_request, decision,
                   result, human_input, oracle_calls, tool_calls, hitl_calls,
                   completed>>
    /\ UNCHANGED <<configVars, otherVars, snapshot, hostVars, invoked, exception>>

\* Tool: self._audit.log_outcome(step=step, "tool", status, message, data).
ToolLogOutcome ==
    /\ pc = "tool_recorded"
    /\ entries' = log_outcome(entries, step, "tool", result.status,
                              result.message, result.data)
    /\ log_file' = IF log_dir /\ find_entry(entries, step) # 0
                   THEN persist_all(entries')
                   ELSE log_file
    /\ pc' = "loop"
    /\ UNCHANGED <<step, history, final_response, now, pending_request, decision,
                   result, human_input, oracle_calls, tool_calls, hitl_calls,
                   completed>>
    /\ UNCHANGED <<configVars, otherVars, snapshot, hostVars, invoked, exception>>

Next ==
    \/ Run
    \/ OracleReturns
    \/ OracleFails
    \/ Exhausted
    \/ LogDecision
    \/ Finalize
    \/ HitlAsk
    \/ HitlAnswered
    \/ HitlPending
    \/ HitlRecord
    \/ HitlLogOutcome
    \/ HitlAdvance
    \/ ToolAdvance
    \/ ToolExecute
    \/ ToolRecord
    \/ ToolLogOutcome

Spec == Init /\ [][Next]_vars

\* A run whose collaborators return: the oracle answers every call with one of
\* the typed decisions, and the HITL channel is synchronous.  Python runs the
\* loop body sequentially, so a step that can be taken is taken.
OracleTyped == Oracle(TypedResponses)

LiveInit == InitWith(0 .. MaxSteps, {"callback"})

LiveNext ==
    \/ Run
    \/ OracleTyped
    \/ Exhausted
    \/ LogDecision
    \/ Finalize
    \/ HitlAsk
    \/ HitlAnswered
    \/ HitlRecord
    \/ HitlLogOutcome
    \/ HitlAdvance
    \/ ToolAdvance
    \/ ToolExecute
    \/ ToolRecord
    \/ ToolLogOutcome

LiveSpec == LiveInit /\ [][LiveNext]_vars /\ WF_vars(LiveNext)

\* --------------------------------------------- ToolRegistry on its own

\* The values execute is called with.
ArgumentValues ==
    {JObject({}), JObject({"expression"}), JObject({"bogus"}), JObject({"timezone"}),
     JArray(2), JNumber(7), JNull}

\* ToolRegistry.__init__: no tools, no descriptions.
RegistryInit ==
    /\ pc = "idle"
    /\ max_steps = 0
    /\ log_dir = FALSE
    /\ hitl = "callback"
    /\ step = 0
    /\ history = <<>>
    /\ final_response = None
    /\ initial_final = None
    /\ tools = EmptyFunction
    /\ descriptions = [n \in {} |-> <<>>]
    /\ entries = <<>>
    /\ log_file = <<>>
    /\ now = 0
    /\ pending_request = None
    /\ snapshot = [history |-> <<>>, step |-> 0]
    /\ decision = NoDecision
    /\ result = NoResult
    /\ human_input = <<>>
    /\ oracle_calls = 0
    /\ tool_calls = <<>>
    /\ hitl_calls = 0
    /\ completed = <<>>
    /\ registrations = 0
    /\ prediction = NoPrediction
    /\ invoked = <<>>
    /\ response = None
    /\ runs = 0
    /\ exception = None
    /\ goal = Goal
    /\ user_messages = <<"hello">>
    /\ loaded = None
    /\ same_session = FALSE
    /\ peer_pc = "idle"
    /\ peer_step = 0
    /\ peer_entries = <<>>
    /\ peer_file = <<>>

\* ToolRegistry.register(name, func, description)
register(name, func, description) ==
    /\ registrations < MaxRegistrations
    /\ tools' = (name :> func) @@ tools
    /\ descriptions' = (name :> description) @@ descriptions
    /\ registrations' = registrations + 1
    /\ UNCHANGED <<pc, max_steps, log_dir, hitl, step, history, final_response,
                   initial_final, entries, log_file, now, pending_request,
                   snapshot, decision, result, human_input, oracle_calls,
                   tool_calls, hitl_calls, completed, hostVars, invoked,
                   exception, otherVars>>

Register ==
    \E name \in ToolNames, func \in ToolFunctions, description \in Descriptions :
        register(name, func, description)

\* A caller's registry.execute(name, arguments); result and tool_calls hold
\* the value and the arguments of the latest call.
ExecuteCall ==
    \E name \in ToolNames, arguments \in ArgumentValues :
        /\ result' = execute(tools, name, arguments)
        /\ tool_calls' = <<<<name, arguments>>>>
        /\ invoked' = invocations(tools, name)
        /\ UNCHANGED <<pc, max_steps, log_dir, hitl, step, history,
                       final_response, initial_final, tools, descriptions,
                       entries, log_file, now, pending_request, snapshot,
                       decision, human_input, oracle_calls, hitl_calls,
                       completed, registrations, hostVars, exception,
                       otherVars>>

RegistryNext == Register \/ ExecuteCall

RegistrySpec == RegistryInit /\ [][RegistryNext]_vars

\* ------------------------------------ decide, from the raw prediction on

\* result = self._policy(...): the oracle call returns a prediction.
OraclePredicts ==
    /\ pc = "loop"
    /\ LoopCondition(step, max_steps)
    /\ prediction' \in Predictions
    /\ snapshot' = [history |-> history, step |-> step]
    /\ oracle_calls' = oracle_calls + 1
    /\ pc' = "predicted"
    /\ UNCHANGED <<step, history, final_response, entries, log_file, now,
                   pending_request, decision, result, human_input, tool_calls,
                   hitl_calls, completed>>
    /\ UNCHANGED <<configVars, otherVars, response, runs, invoked, exception>>

\* decide parses, normalizes and returns the DecisionOutput (lines 84-106).
PolicyReturns ==
    /\ pc = "predicted"
    /\ ~decide_raises(prediction)
    /\ decision' = decide(prediction)
    /\ pc' = "decided"
    /\ UNCHANGED <<step, history, final_response, entries, log_file, now,
                   pending_request, result, human_input, oracle_calls, tool_calls,
                   hitl_calls, completed>>
    /\ UNCHANGED <<configVars, otherVars, snapshot, hostVars, invoked, exception>>

\* decide raises on a field it cannot read: the AttributeError leaves run.
PolicyRaises ==
    /\ pc = "predicted"
    /\ decide_raises(prediction)
    /\ exception' = Some(Error("AttributeError"))
    /\ pc' = "raised"
    /\ UNCHANGED <<step, history, final_response, entries, log_file, now,
                   pending_request, decision, result, human_input, oracle_calls,
                   tool_calls, hitl_calls, completed>>
    /\ UNCHANGED <<configVars, otherVars, snapshot, hostVars, invoked>>

PolicyInit ==
    /\ InitWith(0 .. FewSteps, {"callback"})
    /\ log_dir = FALSE
    /\ final_response = None

PolicyNext ==
    \/ Run
    \/ OraclePredicts
    \/ PolicyReturns
    \/ PolicyRaises
    \/ OracleFails
    \/ Exhausted
    \/ LogDecision
    \/ Finalize
    \/ HitlAsk
    \/ HitlAnswered
    \/ HitlRecord
    \/ HitlLogOutcome
    \/ HitlAdvance
    \/ ToolAdvance
    \/ ToolExecute
    \/ ToolRecord
    \/ ToolLogOutcome

PolicySpec == PolicyInit /\ [][PolicyNext]_vars

\* ------------------------------------------- several invocations of run

\* AsyncHITLHandler.has_pending_request
has_pending_request == pending_request # None

\* run taking up the step counter where the invocation before left it.
Rerun_ResumesStep ==
    /\ pc \in {"returned", "raised"}
    /\ runs < MaxRuns
    /\ runs' = runs + 1
    /\ step' = step
    /\ exception' = None
    /\ pc' = "loop"
    /\ UNCHANGED <<history, final_response, entries, log_file, now,
                   pending_request, decision, result, human_input, oracle_calls,
                   tool_calls, hitl_calls, completed>>
    /\ UNCHANGED <<configVars, otherVars, snapshot, prediction, response, invoked>>

\* The caller invokes run again on the same orchestrator and state, after
\* the run before returned or raised: step = 0 (line 99).
Rerun ==
    /\ pc \in {"returned", "raised"}
    /\ runs < MaxRuns
    /\ runs' = runs + 1
    /\ step' = 0
    /\ exception' = None
    /\ pc' = "loop"
    /\ UNCHANGED <<history, final_response, entries, log_file, now,
                   pending_request, decision, result, human_input, oracle_calls,
                   tool_calls, hitl_calls, completed>>
    /\ UNCHANGED <<configVars, otherVars, snapshot, prediction, response, invoked>>

\* The caller's AsyncHITLHandler.provide_response(response), between runs.
ProvideResponse ==
    /\ hitl = "async"
    /\ pc \in {"idle", "returned", "raised"}
    /\ \E t \in Answers : response' = Some(t)
    /\ pending_request' = None
    /\ UNCHANGED <<pc, step, history, final_response, entries, log_file, now,
                   decision, result, human_input, oracle_calls, tool_calls,
                   hitl_calls, completed>>
    /\ UNCHANGED <<configVars, otherVars, snapshot, prediction, runs, invoked, exception>>

\* The caller's AsyncHITLHandler.get_response() when a response is there:
\* it is returned and cleared.
GetResponse ==
    /\ hitl = "async"
    /\ pc \in {"idle", "returned", "raised"}
    /\ response # None
    /\ response' = None
    /\ UNCHANGED <<pc, step, history, final_response, entries, log_file, now,
                   pending_request, decision, result, human_input, oracle_calls,
                   tool_calls, hitl_calls, completed>>
    /\ UNCHANGED <<configVars, otherVars, snapshot, prediction, runs, invoked, exception>>

\* The predictions the oracle is drawn from when several runs are followed.
ResumeResponses ==
    {r \in RawResponses :
        /\ r.decision_type \in {TOOL, HITL, FINAL}
        /\ r.selected_tool \in {"calculate", "ghost"}
        /\ r.arguments = <<" ", "{\"expression\": \"2+2\"}">>
        /\ r.final_response = <<"done">>}

OracleResumed == Oracle(ResumeResponses)

ResumeInit == InitWith(0 .. FewSteps, {"callback", "async"})

ResumeNext ==
    \/ Run
    \/ Rerun
    \/ ProvideResponse
    \/ GetResponse
    \/ OracleResumed
    \/ OracleFails
    \/ Exhausted
    \/ LogDecision
    \/ Finalize
    \/ HitlAsk
    \/ HitlAnswered
    \/ HitlPending
    \/ HitlRecord
    \/ HitlLogOutcome
    \/ HitlAdvance
    \/ ToolAdvance
    \/ ToolExecute
    \/ ToolRecord
    \/ ToolLogOutcome

ResumeSpec == ResumeInit /\ [][ResumeNext]_vars

\* ----------------------------------------------- AuditLogger on its own

\* The steps and decisions log_decision is called with.
AuditSteps == {0, 1}

AuditDecisions ==
    {DecisionOutput(<<"because">>, TOOL, "calculate", JObject({"expression"}), <<>>, <<>>),
     DecisionOutput(<<"because">>, HITL, "", JObject({}), <<"Which city?">>, <<>>)}

\* AuditLogger(log_dir) with no entries, and a session file of its own.
AuditInit ==
    /\ InitWith({0}, {"callback"})
    /\ final_response = None

\* A caller's log_decision(step, ...), the durable write succeeding.
LogDecisionCall ==
    /\ Len(entries) < MaxEntries
    /\ \E s \in AuditSteps, d \in AuditDecisions :
          entries' = log_decision(entries, s, now, goal, <<>>, d)
    /\ log_file' = persist_entry(log_file, log_dir, Last(entries'))
    /\ now' = now + 1
    /\ exception' = None
    /\ UNCHANGED <<pc, step, history, final_response, pending_request, decision,
                   result, human_input, oracle_calls, tool_calls, hitl_calls,
                   completed>>
    /\ UNCHANGED <<configVars, otherVars, snapshot, hostVars, invoked>>

\* log_outcome rewriting the session file whether or not an entry matched.
LogOutcomeCall_AlwaysRewrites ==
    /\ \E s \in AuditSteps, o \in {"tool", "hitl"} :
          /\ entries' = log_outcome(entries, s, o,
                                    IF o = "tool" THEN "success" ELSE "feedback",
                                    <<"Paris">>, None)
          /\ log_file' = IF log_dir THEN persist_all(entries') ELSE log_file
          /\ step' = s
    /\ exception' = None
    /\ UNCHANGED <<pc, history, final_response, now, pending_request,
                   decision, result, human_input, oracle_calls, tool_calls,
                   hitl_calls, completed>>
    /\ UNCHANGED <<configVars, otherVars, snapshot, hostVars, invoked>>

\* A caller's log_outcome(step, ...), the durable write succeeding; step
\* holds the step argument of the latest call.
LogOutcomeCall ==
    /\ \E s \in AuditSteps, o \in {"tool", "hitl"} :
          /\ entries' = log_outcome(entries, s, o,
                                    IF o = "tool" THEN "success" ELSE "feedback",
                                    <<"Paris">>, None)
          /\ log_file' = IF log_dir /\ find_entry(entries, s) # 0
                         THEN persist_all(entries')
                         ELSE log_file
          /\ step' = s
    /\ exception' = None
    /\ UNCHANGED <<pc, history, final_response, now, pending_request,
                   decision, result, human_input, oracle_calls, tool_calls,
                   hitl_calls, completed>>
    /\ UNCHANGED <<configVars, otherVars, snapshot, hostVars, invoked>>

\* A caller's AuditLogger.load_session(logger.export_session()).
LoadExported ==
    /\ LET r == load_session(export_session(entries), log_file)
       IN  /\ loaded' = Some([source |-> "export_session", raised |-> r.raised,
                              entries |-> r.entries])
           /\ exception' = IF r.raised THEN Some(Error("TypeError")) ELSE None
    /\ UNCHANGED <<pc, step, history, final_response, entries, log_file, now,
                   pending_request, decision, result, human_input, oracle_calls,
                   tool_calls, hitl_calls, completed>>
    /\ UNCHANGED <<configVars, goal, user_messages, peerVars, snapshot, hostVars,
                   invoked>>

\* A caller's AuditLogger.load_session(path of the session file).
LoadFile ==
    /\ log_dir
    /\ log_file # <<>>
    /\ LET r == load_session(SessionFile, log_file)
       IN  /\ loaded' = Some([source |-> "session_file", raised |-> r.raised,
                              entries |-> r.entries])
           /\ exception' = IF r.raised THEN Some(Error("TypeError")) ELSE None
    /\ UNCHANGED <<pc, step, history, final_response, entries, log_file, now,
                   pending_request, decision, result, human_input, oracle_calls,
                   tool_calls, hitl_calls, completed>>
    /\ UNCHANGED <<configVars, goal, user_messages, peerVars, snapshot, hostVars,
                   invoked>>

AuditNext == LogDecisionCall \/ LogOutcomeCall \/ LoadExported \/ LoadFile

AuditSpec == AuditInit /\ [][AuditNext]_vars

\* log_decision when the write of the line fails: the entry is already in
\* _entries (line 122), and the OSError of open/write leaves log_decision.
LogDecisionWriteFails ==
    /\ log_dir
    /\ Len(entries) < MaxEntries
    /\ \E s \in AuditSteps, d \in AuditDecisions :
          entries' = log_decision(entries, s, now, goal, <<>>, d)
    /\ now' = now + 1
    /\ exception' = Some(Error("OSError"))
    /\ UNCHANGED <<pc, step, history, final_response, log_file, pending_request,
                   decision, result, human_input, oracle_calls, tool_calls,
                   hitl_calls, completed>>
    /\ UNCHANGED <<configVars, otherVars, snapshot, hostVars, invoked>>

\* log_outcome when the rewrite fails: open(..., "w") fails and leaves the
\* file, or a write fails after the file was truncated and some lines written.
LogOutcomeWriteFails ==
    /\ log_dir
    /\ \E s \in AuditSteps :
          /\ find_entry(entries, s) # 0
          /\ entries' = log_outcome(entries, s, "hitl", "feedback", <<"Paris">>, None)
          /\ \E n \in 0 .. Len(entries) - 1 :
                log_file' \in {log_file, SubSeq(persist_all(entries'), 1, n)}
    /\ exception' = Some(Error("OSError"))
    /\ UNCHANGED <<pc, step, history, final_response, now, pending_request,
                   decision, result, human_input, oracle_calls, tool_calls,
                   hitl_calls, completed>>
    /\ UNCHANGED <<configVars, otherVars, snapshot, hostVars, invoked>>

AuditFaultNext == AuditNext \/ LogDecisionWriteFails \/ LogOutcomeWriteFails

AuditFaultSpec == AuditInit /\ [][AuditFaultNext]_vars

\* log_decision and log_outcome calls alone, with writes that may fail, so
\* that the session file can lag behind the entries in memory.
OutcomeNext == LogDecisionCall \/ LogDecisionWriteFails \/ LogOutcomeCall

OutcomeSpec == AuditInit /\ [][OutcomeNext]_vars

\* ------------------------------------------------- a second orchestrator

\* A second Orchestrator is constructed with an audit directory.  Its logger
\* takes the session id from the clock, to the second: with the same
\* directory and the same second, both loggers name the same session file.
PeerCreated ==
    /\ peer_pc = "idle"
    /\ same_session' \in BOOLEAN
    /\ peer_pc' = "loop"
    /\ UNCHANGED <<pc, step, history, final_response, entries, log_file, now,
                   pending_request, decision, result, human_input, oracle_calls,
                   tool_calls, hitl_calls, completed>>
    /\ UNCHANGED <<configVars, goal, user_messages, loaded, peer_step,
                   peer_entries, peer_file, snapshot, hostVars, invoked, exception>>

\* The history the second run's state holds after peer_step HITL iterations.
PeerHistory == [i \in 1 .. 2 * peer_step |-> "entry"]

\* The second run logs a HITL decision (its log_decision call).
PeerLogDecision ==
    /\ peer_pc = "loop"
    /\ peer_step < FewSteps
    /\ peer_entries' =
          log_decision(peer_entries, peer_step, now, goal, PeerHistory,
                       DecisionOutput(<<"because">>, HITL, "", JObject({}),
                                      <<"Which city?">>, <<>>))
    /\ IF same_session
       THEN /\ log_file' = persist_entry(log_file, TRUE, Last(peer_entries'))
            /\ peer_file' = peer_file
       ELSE /\ peer_file' = persist_entry(peer_file, TRUE, Last(peer_entries'))
            /\ log_file' = log_file
    /\ now' = now + 1
    /\ peer_pc' = "logged"
    /\ UNCHANGED <<pc, step, history, final_response, entries, pending_request,
                   decision, result, human_input, oracle_calls, tool_calls,
                   hitl_calls, completed>>
    /\ UNCHANGED <<configVars, goal, user_messages, loaded, same_session,
                   peer_step, snapshot, hostVars, invoked, exception>>

\* The second run logs the answer (its log_outcome call) and increments its step.
PeerLogOutcome ==
    /\ peer_pc = "logged"
    /\ peer_entries' = log_outcome(peer_entries, peer_step, "hitl", "feedback",
                                   <<"Paris">>, None)
    /\ IF same_session
       THEN /\ log_file' = persist_all(peer_entries')
            /\ peer_file' = peer_file
       ELSE /\ peer_file' = persist_all(peer_entries')
            /\ log_file' = log_file
    /\ peer_step' = peer_step + 1
    /\ peer_pc' = "loop"
    /\ UNCHANGED <<pc, step, history, final_response, entries, now,
                   pending_request, decision, result, human_input, oracle_calls,
                   tool_calls, hitl_calls, completed>>
    /\ UNCHANGED <<configVars, goal, user_messages, loaded, same_session,
                   snapshot, hostVars, invoked, exception>>

PeerInit ==
    /\ InitWith(0 .. FewSteps, {"callback"})
    /\ log_dir
    /\ final_response = None

PeerNext ==
    \/ PeerCreated
    \/ PeerLogDecision
    \/ PeerLogOutcome
    \/ Run
    \/ OracleResumed
    \/ OracleFails
    \/ Exhausted
    \/ LogDecision
    \/ Finalize
    \/ HitlAsk
    \/ HitlAnswered
    \/ HitlRecord
    \/ HitlLogOutcome
    \/ HitlAdvance
    \/ ToolAdvance
    \/ ToolExecute
    \/ ToolRecord
    \/ ToolLogOutcome

PeerSpec == PeerInit /\ [][PeerNext]_vars

\* ================================================================ claims


\* The positions of run inside the loop (Deciding, ExecutingTool, AwaitingHuman).
NonTerminal ==
    {"loop", "decided", "logged", "hitl_asked", "hitl_answered", "hitl_recorded",
     "hitl_logged", "tool_stepped", "tool_executed", "tool_recorded"}

IsPrefix(p, s) == Len(p) <= Len(s) /\ SubSeq(s, 1, Len(p)) = p

AllDecisionsTool ==
    \A i \in DOMAIN entries : entries[i].decision_output.decision_type = TOOL

\* C2: with max_steps = N and an oracle that always returns Tool, run has, when
\* it returns, performed exactly N iterations, each of which executed a tool and
\* appended a tool history entry, has set a non-null final_response, and has
\* called the oracle N times, not N + 1.
C2_BoundEnforcement ==
    (pc = "returned" /\ AllDecisionsTool) =>
        /\ oracle_calls = max_steps
        /\ Len(entries) = max_steps
        /\ Len(tool_calls) = max_steps
        /\ Len(history) = max_steps
        /\ \A i \in DOMAIN history :
              /\ history[i].actor = "tool"
              /\ history[i].action = tool_calls[i][1]
        /\ final_response # None

C2_Witness ==
    /\ pc = "returned"
    /\ AllDecisionsTool
    /\ max_steps >= 2
    /\ Len(tool_calls) = max_steps

\* C3: in a run started on a state whose final_response is null, final_response
\* is null in every non-terminal position of the loop and non-null whenever run
\* has returned.
C3_FinalIffTerminal ==
    initial_final = None =>
        /\ pc \in NonTerminal => final_response = None
        /\ pc = "returned" => final_response # None

C3_Witness ==
    /\ pc = "returned"
    /\ initial_final = None
    /\ final_response = Some(<<"done">>)
    /\ history # <<>>

\* C4: every completed iteration leaves the history strictly longer than the
\* one its oracle call was given, with that one as a prefix; and final_response
\* changes only when Final is chosen or the step bound is hit.
C4_HistoryGrows ==
    [][ /\ (pc' = "loop" /\ pc \notin {"idle", "loop"}) =>
              /\ Len(history') > Len(snapshot.history)
              /\ IsPrefix(snapshot.history, history')
        /\ final_response' # final_response =>
              \/ pc = "logged" /\ decision.decision_type = FINAL
              \/ pc = "loop" /\ step >= max_steps
      ]_vars

C4_Witness ==
    /\ pc = "loop"
    /\ oracle_calls = 2
    /\ Len(history) = 3
    /\ final_response = None

\* A Tool decision as the data model types it: its arguments are a mapping.
TypedTool == decision.decision_type = TOOL /\ IsMapping(decision.arguments)

RequestEntry ==
    [step |-> snapshot.step, actor |-> "agent", action |-> "hitl_request",
     arguments |-> None, outcome |-> "success", result |-> decision.hitl_request]

ResponseEntry ==
    [step |-> snapshot.step, actor |-> "human", action |-> "hitl_response",
     arguments |-> None, outcome |-> "feedback", result |-> human_input]

\* C6: a HITL decision answered by a channel that returns a string appends
\* exactly the request entry and then the response entry, the step is still the
\* step of the decision while the two are appended, and the iteration ends by
\* advancing the step by exactly 1.
C6_HitlRoundTrip ==
    /\ [](/\ pc \in {"hitl_asked", "hitl_answered"} =>
                /\ step = snapshot.step
                /\ history = snapshot.history \o <<RequestEntry>>
          /\ pc \in {"hitl_recorded", "hitl_logged"} =>
                /\ step = snapshot.step
                /\ history = snapshot.history \o <<RequestEntry, ResponseEntry>>)
    /\ [][ /\ pc \in {"hitl_answered", "hitl_recorded", "hitl_logged"}
                 => pc' \notin {"raised", "returned"}
           /\ (pc = "hitl_logged" /\ pc' = "loop") =>
                 /\ step' = snapshot.step + 1
                 /\ history' = history
         ]_vars

C6_Witness ==
    /\ pc = "loop"
    /\ step = 1
    /\ Len(history) = 2
    /\ history[1].actor = "agent"
    /\ history[2].actor = "human"
    /\ history[2].result = <<"Paris">>

\* Audit entry e records decision d, taken at step s.
Records(e, d, s) ==
    /\ e.step = s
    /\ e.decision_output.decision_type = d.decision_type
    /\ e.decision_output.rationale = d.rationale
    /\ d.decision_type = TOOL =>
          /\ e.decision_output.selected_tool = d.selected_tool
          /\ e.decision_output.arguments = d.arguments
    /\ d.decision_type = HITL => e.decision_output.hitl_request = d.hitl_request
    /\ d.decision_type = FINAL => e.decision_output.final_response = d.final_response

\* The run was aborted by the action of the current decision.
AbortedByAction ==
    /\ pc = "raised"
    /\ \/ pending_request # None
       \/ /\ tool_calls # <<>>
          /\ Last(tool_calls) = <<decision.selected_tool, decision.arguments>>
          /\ ~IsMapping(decision.arguments)

\* C7: whenever a step of an iteration executes a tool, calls the HITL channel,
\* appends to history, or sets final_response for a Final decision, the audit
\* log already ends with the entry of this iteration's decision; and when the
\* action aborts the run, the log holds that entry.
C7_AuditBeforeAction ==
    /\ [][ (\/ tool_calls' # tool_calls
            \/ hitl_calls' # hitl_calls
            \/ history' # history
            \/ completed' # completed
            \/ (final_response' # final_response /\ pc = "logged"))
           => /\ Len(entries) = oracle_calls
              /\ entries # <<>>
              /\ Records(Last(entries), decision, snapshot.step)
         ]_vars
    /\ [](AbortedByAction =>
              /\ entries # <<>>
              /\ Records(Last(entries), decision, snapshot.step))

C7_Witness ==
    /\ AbortedByAction
    /\ pending_request # None
    /\ Len(entries) = 2

\* C8: after a Tool iteration completes, the audit entry logged for that Tool
\* decision has the outcome {type tool, status, result, data} of the tool result.
C8_ToolOutcomePaired ==
    (pc = "loop" /\ oracle_calls > 0 /\ decision.decision_type = TOOL) =>
        /\ entries # <<>>
        /\ Last(entries).outcome =
              Some([type |-> "tool", status |-> result.status,
                    result |-> result.message, data |-> result.data])

\* The selected tool is registered and raises, or rejects the keywords of the
\* mapping it is called with.
ToolFails(d) ==
    /\ d.decision_type = TOOL
    /\ IsMapping(d.arguments)
    /\ d.selected_tool \in DOMAIN tools
    /\ \/ tools[d.selected_tool].does \in {"Exception", "TypeError"}
       \/ ~(tools[d.selected_tool].required \subseteq d.arguments.keys)
       \/ ~(d.arguments.keys \subseteq
               (tools[d.selected_tool].required \cup tools[d.selected_tool].optional))

C10_ExecuteTotal ==
    [][ (result' # result \/ tool_calls' # tool_calls) =>
          LET name == tool_calls'[1][1]
              args == tool_calls'[1][2]
          IN  /\ ~result'.raised
              /\ result'.status \in {"success", "error"}
              /\ name \notin DOMAIN tools => result'.status = "error"
              /\ ~IsMapping(args) => result'.status = "error"
              /\ (name \in DOMAIN tools /\ IsMapping(args)) =>
                    /\ ~(tools[name].required \subseteq args.keys)
                          => result'.status = "error"
                    /\ ~(args.keys \subseteq (tools[name].required \cup tools[name].optional))
                          => result'.status = "error"
                    /\ tools[name].does \in {"Exception", "TypeError"}
                          => result'.status = "error"
      ]_vars

C10_Witness ==
    /\ registrations = 1
    /\ tool_calls # <<>>
    /\ tool_calls[1][1] \in DOMAIN tools
    /\ tools[tool_calls[1][1]].does = "Exception"
    /\ tool_calls[1][2] = JObject({})
    /\ result = ToolResult_error(<<"Tool '", tool_calls[1][1], "' failed: ", "boom">>)

\* C11: for every name that is not registered, execute(name, args) returns
\* the ToolResult with status error and message "Tool '<name>' not found",
\* invokes no registered tool, and leaves the registry as it was.
C11_UnknownToolNotFound ==
    [][ ((result' # result \/ tool_calls' # tool_calls \/ invoked' # invoked)
           /\ tool_calls'[1][1] \notin DOMAIN tools) =>
          LET name == tool_calls'[1][1]
          IN  /\ result' = [raised |-> FALSE, status |-> "error",
                            message |-> <<"Tool '", name, "' not found">>,
                            data |-> None]
              /\ invoked' = <<>>
              /\ tools' = tools
              /\ descriptions' = descriptions
              /\ registrations' = registrations
      ]_vars

C11_Witness ==
    /\ registrations = 1
    /\ DOMAIN tools = {"calculate"}
    /\ tool_calls = <<<<"ghost", JObject({})>>>>
    /\ result = ToolResult_error(<<"Tool '", "ghost", "' not found">>)
    /\ invoked = <<>>

\* decision_type.lower().strip() of a string-typed prediction is none of
\* "tool", "hitl", "final".
Unrecognized(p) ==
    /\ p.types = WellFormed
    /\ Strip(Lower(p.decision_type)) \notin {TOOL, HITL, FINAL}

\* C12: when the oracle returns a decision type that is none of tool, hitl,
\* final after normalization, decide returns a Final decision whose response
\* is a non-empty diagnostic text, whatever the raw final_response held, and
\* the loop ends on that step without incrementing the step counter.
C12_UnrecognizedTypeDiagnostic ==
    /\ [][ (pc = "predicted" /\ Unrecognized(prediction)) =>
             /\ pc' = "decided"
             /\ decision'.decision_type = FINAL
             /\ decision'.final_response # <<>>
         ]_vars
    /\ [][ (pc = "logged" /\ decision.decision_type = FINAL) =>
             (pc' = "returned" /\ step' = step) ]_vars

\* Only the payload of d's variant is populated.
OnlyOwnPayload(d) ==
    /\ d.decision_type \in {TOOL, HITL, FINAL}
    /\ d.decision_type # TOOL => (d.selected_tool = "" /\ d.arguments = JObject({}))
    /\ d.decision_type # HITL => d.hitl_request = <<>>
    /\ d.decision_type # FINAL => d.final_response = <<>>

\* C13: for every raw prediction decide returns a DecisionOutput for, the
\* decision type is one of tool, hitl, final and only that variant's payload
\* is populated, whatever the raw prediction held in the other fields.
C13_OneVariantPopulated == decision # NoDecision => OnlyOwnPayload(decision)

C13_Witness ==
    /\ pc = "decided"
    /\ decision.decision_type = HITL
    /\ decision.hitl_request # <<>>
    /\ prediction.selected_tool # ""
    /\ JsonLoads(prediction.arguments).ok
    /\ JsonLoads(prediction.arguments).value = JObject({"expression"})
    /\ prediction.final_response # <<>>

\* A string-typed prediction that resolves to Tool and whose arguments
\* payload json.loads is called on and rejects.
ParseFails(p) ==
    /\ p.types = WellFormed
    /\ Strip(Lower(p.decision_type)) = TOOL
    /\ Strip(p.arguments) # <<>>
    /\ ~JsonLoads(p.arguments).ok

\* C14: when the resolved type is Tool and the arguments payload is a string
\* that fails to parse as JSON, decide returns a Tool decision whose arguments
\* are the empty mapping, and the run goes on to execute the selected tool
\* with no arguments.
C14_ParseFailureEmptyArguments ==
    [][ ParseFails(prediction) =>
          /\ pc = "predicted" =>
                /\ pc' = "decided"
                /\ decision' = DecisionOutput(prediction.rationale, TOOL,
                                              prediction.selected_tool,
                                              JObject({}), <<>>, <<>>)
          /\ pc = "decided" => pc' = "logged"
          /\ pc = "logged" => pc' = "tool_stepped"
          /\ pc = "tool_stepped" =>
                /\ pc' = "tool_executed"
                /\ tool_calls' = Append(tool_calls,
                                        <<prediction.selected_tool, JObject({})>>)
                /\ result' = execute(tools, prediction.selected_tool, JObject({}))
      ]_vars

C14_Witness ==
    /\ pc = "tool_executed"
    /\ ParseFails(prediction)
    /\ prediction.arguments = <<"{not json">>
    /\ tool_calls = <<<<"calculate", JObject({})>>>>
    /\ result.status = "error"

\* C15: the adapter never lets a malformed prediction escape: for every
\* prediction the oracle call returns, including one whose decision_type,
\* arguments or other fields are missing, None or not strings, decide returns
\* a DecisionOutput and raises nothing.
C15_MalformedNeverEscapes ==
    [][ pc = "predicted" =>
          /\ pc' = "decided"
          /\ exception' = None
          /\ decision'.decision_type \in {TOOL, HITL, FINAL}
      ]_vars

\* C16: on a Final decision run sets state.final_response to the decision's
\* response, calls the stream handler's on_complete exactly once with it and
\* stops: the step counter is not incremented, no history entry is appended,
\* no tool is executed, the HITL channel is not called, and the oracle is not
\* called again.
C16_FinalStops ==
    /\ [][ (pc = "logged" /\ decision.decision_type = FINAL) =>
             /\ pc' = "returned"
             /\ final_response' = Some(decision.final_response)
             /\ completed' = Append(completed, decision.final_response)
             /\ step' = step /\ step = snapshot.step
             /\ history' = history /\ history = snapshot.history
             /\ tool_calls' = tool_calls
             /\ invoked' = invoked
             /\ hitl_calls' = hitl_calls
             /\ pending_request' = pending_request
             /\ oracle_calls' = oracle_calls
         ]_vars
    /\ [][pc # "returned"]_vars
    /\ [](Len(completed) <= 1)

C16_Witness ==
    /\ pc = "returned"
    /\ decision.decision_type = FINAL
    /\ final_response = Some(<<"done">>)
    /\ completed = <<<<"done">>>>
    /\ step = 1
    /\ Len(history) = 1
    /\ oracle_calls = 2

\* The message the else branch of run's loop sets (lines 207-210).
ExhaustionMessage(m) ==
    <<"Agent terminated after ", IntToStr(m), " steps ",
      "without reaching a final response.">>

\* C17: when the step counter reaches max_steps without a Final decision
\* (max_steps = 0 included, where the oracle is never called), run returns
\* with final_response set to the exhaustion message, which depends only on
\* max_steps, and raises nothing; and run returns without a Final decision
\* only by reaching the bound.
C17_ExhaustionReturns ==
    /\ [][ (pc = "loop" /\ step >= max_steps) =>
             /\ pc' = "returned"
             /\ final_response' = Some(ExhaustionMessage(max_steps))
             /\ exception' = None
             /\ oracle_calls' = oracle_calls
             /\ history' = history
             /\ completed' = completed
         ]_vars
    /\ [](max_steps = 0 => oracle_calls = 0)
    /\ [](step <= max_steps)
    /\ []((pc = "returned" /\ decision.decision_type # FINAL) =>
             /\ step = max_steps
             /\ final_response = Some(ExhaustionMessage(max_steps))
             /\ exception = None)

C17_Witness ==
    /\ pc = "returned"
    /\ max_steps = 2
    /\ step = 2
    /\ oracle_calls = 2
    /\ decision.decision_type = TOOL
    /\ final_response = Some(ExhaustionMessage(2))

\* C18: when the external oracle call itself fails in iteration k, the
\* failure leaves run as it is, and the state is consistent: history holds
\* the entries of the k-1 completed iterations, final_response is what it
\* was when run was called (null for a fresh state), and no audit entry was
\* added for the failed decision.
C18_OracleFailurePropagates ==
    /\ [][ (pc = "loop" /\ oracle_calls' = oracle_calls + 1 /\ pc' # "decided") =>
             /\ pc' = "raised"
             /\ exception' = Some(Error("OracleError"))
             /\ history' = history
             /\ final_response' = final_response
             /\ entries' = entries
             /\ log_file' = log_file
             /\ step' = step
         ]_vars
    /\ []((pc = "raised" /\ exception = Some(Error("OracleError"))) =>
             /\ final_response = initial_final
             /\ Len(entries) = oracle_calls - 1
             /\ oracle_calls - 1 = Len(tool_calls) + hitl_calls
             /\ Len(history) = Len(tool_calls) + 2 * hitl_calls
             /\ \A i \in DOMAIN history : history[i].step <= step)
    /\ [][pc # "raised"]_vars

C18_Witness ==
    /\ pc = "raised"
    /\ exception = Some(Error("OracleError"))
    /\ oracle_calls = 2
    /\ hitl_calls = 1
    /\ Len(history) = 2
    /\ Len(entries) = 1
    /\ final_response = None

\* C19: with the queued HITL handler, after request_human_input(r) raised
\* pending, the caller's provide_response(t) and a new invocation of run make
\* the handler return t for the HITL exchange instead of raising pending
\* again, so the resumed run gets past the HITL step.
C19_ResumeReturnsResponse ==
    [][ (/\ pc = "hitl_asked"
         /\ hitl = "async"
         /\ runs > 1
         /\ hitl_calls > 0
         /\ response # None) =>
          /\ pc' = "hitl_answered"
          /\ human_input' = Get(response)
          /\ exception' = None
      ]_vars

Logged(e) == <<e.step, e.timestamp, e.input_snapshot, e.decision_output>>

\* C21: the audit log is append-only: log_decision and log_outcome never
\* delete or reorder entries, never change the step, timestamp, input_snapshot
\* or decision_output of an existing entry, and a log_decision for a step that
\* already has an entry adds a further entry beside it.
C21_AuditAppendOnly ==
    [][ /\ Len(entries) <= Len(entries')
        /\ Len(entries') <= Len(entries) + 1
        /\ \A i \in DOMAIN entries : Logged(entries'[i]) = Logged(entries[i])
        /\ now' # now =>
              /\ Len(entries') = Len(entries) + 1
              /\ SubSeq(entries', 1, Len(entries)) = entries
      ]_vars

C21_Witness ==
    /\ Len(entries) = 2
    /\ entries[1].step = entries[2].step
    /\ entries[1].timestamp < entries[2].timestamp
    /\ entries[1].decision_output.decision_type = TOOL
    /\ entries[2].decision_output.decision_type = HITL
    /\ entries[1].outcome = None
    /\ entries[2].outcome # None

\* C22: when several audit entries share step s, log_outcome(s, ...) sets the
\* outcome of the entry with step s that was appended last and leaves every
\* other entry's outcome as it was.
C22_OutcomeOnLatestOfStep ==
    [][ (Len(entries') = Len(entries) /\ entries' # entries) =>
          \E i \in DOMAIN entries :
              /\ entries'[i].outcome # entries[i].outcome
              /\ entries'[i].outcome # None
              /\ \A j \in DOMAIN entries : j # i => entries'[j] = entries[j]
              /\ \A j \in DOMAIN entries : entries[j].step = entries[i].step => j <= i
      ]_vars

C22_Witness ==
    /\ Len(entries) = 2
    /\ entries[1].step = 1
    /\ entries[2].step = 1
    /\ entries[1].outcome = None
    /\ entries[2].outcome =
          Some([type |-> "hitl", status |-> "feedback", result |-> <<"Paris">>,
                data |-> None])

\* C23: log_decision always succeeds: whether the durable write succeeds or
\* fails, it appends exactly one entry with outcome null to the in-memory log
\* and returns it without raising.
C23_LogDecisionAlwaysSucceeds ==
    [][ now' # now =>
          /\ Len(entries') = Len(entries) + 1
          /\ Last(entries').outcome = None
          /\ exception' = None
      ]_vars

\* C24: for a logger with a directory, after every log_decision and every
\* log_outcome call the session file holds exactly one line per in-memory
\* entry, in append order, each line showing the entry as it is now, outcome
\* included.
C24_FileMirrorsEntries ==
    log_dir =>
        /\ Len(log_file) = Len(entries)
        /\ \A i \in DOMAIN entries : log_file[i] = to_line(entries[i])

C24_Witness ==
    /\ log_dir
    /\ Len(entries) = 2
    /\ entries[1].outcome # None
    /\ entries[2].outcome = None
    /\ Len(log_file) = 2
    /\ from_line(log_file[1]).outcome = entries[1].outcome

\* C25: audit replay round-trips: load_session(export_session()) yields a log
\* whose entries equal the original entries, field by field and in order.
C25_ReplayRoundTrip ==
    [][ (loaded' # loaded /\ Get(loaded').source = "export_session") =>
          /\ ~Get(loaded').raised
          /\ Get(loaded').entries = entries
          /\ exception' = None
      ]_vars

\* C26: two independent Orchestrators, each with its own AgentState, run
\* with their iterations interleaved, do not affect each other: each one's
\* persisted audit log is what it is when it runs alone, the lines of its own
\* entries, also when both have the same audit directory.
C26_IndependentRuns ==
    /\ log_file = persist_all(entries)
    /\ peer_pc # "idle" =>
          (IF same_session THEN log_file ELSE peer_file) = persist_all(peer_entries)

\* C27: for every Tool iteration, the history entry the iteration appends has
\* the tool result's message as its result and the result's data in none of
\* its fields; a history entry has no field for data.
C27_OnlyMessageInHistory ==
    /\ pc = "tool_recorded" =>
          Last(history) = HistoryEntry(step, "tool", decision.selected_tool,
                                       Some(decision.arguments), result.status,
                                       result.message)
    /\ \A i \in DOMAIN history :
          DOMAIN history[i] =
              {"step", "actor", "action", "arguments", "outcome", "result"}

C27_Witness ==
    /\ pc = "tool_recorded"
    /\ ~IsNone(result.data)
    /\ Last(history).actor = "tool"
    /\ Last(history).result = result.message

\* C28: run never changes goal or user_messages, and every step of a run
\* leaves the history it found as an unchanged prefix of the history it
\* leaves: at most one entry is appended, none is removed, moved or edited.
C28_StateFrame ==
    [][ /\ goal' = goal
        /\ user_messages' = user_messages
        /\ IsPrefix(history, history')
        /\ Len(history') <= Len(history) + 1 ]_vars

C28_Witness ==
    /\ pc = "returned"
    /\ Len(history) = 3
    /\ history[1].actor = "tool"
    /\ history[3].actor = "human"
    /\ goal = Goal

\* C29: within one run final_response is written once, by the terminal
\* transition only (the Final branch or the exhaustion branch): until run
\* returns it is what it was when run was called, so no Tool or HITL
\* iteration writes it; the step that changes it is the one that ends the
\* run; and when run has returned it is non-null and nothing changes it.
C29_ResponseWrittenOnce ==
    /\ [](pc # "returned" => final_response = initial_final)
    /\ [](pc = "returned" =>
             /\ final_response # None
             /\ \/ /\ decision.decision_type = FINAL
                   /\ final_response = Some(decision.final_response)
                \/ /\ step >= max_steps
                   /\ final_response = Some(ExhaustionMessage(max_steps)))
    /\ [][ final_response' # final_response =>
             (pc # "returned" /\ pc' = "returned") ]_vars
    /\ [][ pc = "returned" => final_response' = final_response ]_vars

C29_Witness ==
    /\ pc = "returned"
    /\ initial_final = None
    /\ final_response = Some(<<"done">>)
    /\ Len(history) = 2
    /\ history[2].actor = "human"
    /\ decision.decision_type = FINAL

\* The outcome log_outcome records for a HITL iteration answered by `answer`.
HitlOutcome(answer) ==
    Some([type |-> "hitl", status |-> "feedback", result |-> answer,
          data |-> None])

\* C30: after a HITL iteration answered by a channel that returns a string,
\* the audit entry logged for that decision has the outcome {type hitl,
\* status feedback, result = the answer}; the outcome is logged after the
\* request and the response are in history and before the step is incremented.
C30_HitlOutcomeLogged ==
    /\ pc \in {"hitl_asked", "hitl_answered", "hitl_recorded"} =>
          Last(entries).outcome = None
    /\ pc = "hitl_logged" =>
          /\ Last(entries).step = snapshot.step
          /\ Last(entries).decision_output.decision_type = HITL
          /\ Last(entries).outcome = HitlOutcome(human_input)
          /\ Len(history) = Len(snapshot.history) + 2
          /\ history[Len(history) - 1].action = "hitl_request"
          /\ Last(history).action = "hitl_response"
          /\ Last(history).result = human_input
          /\ step = snapshot.step

C30_Witness ==
    /\ pc = "hitl_logged"
    /\ Len(entries) = 2
    /\ Last(entries).outcome = HitlOutcome(<<"Paris">>)
    /\ step = 1

\* C31: a Tool decision whose arguments payload is valid JSON but not a
\* mapping is a recoverable failure: the registry's error result is folded
\* into history as an error-outcome entry, and nothing is raised out of run.
C31_NonMappingRecovered ==
    [][ (/\ pc = "tool_executed"
         /\ decision.decision_type = TOOL
         /\ ~IsMapping(decision.arguments))
        => /\ pc' = "tool_recorded"
           /\ exception' = None
           /\ Len(history') = Len(history) + 1
           /\ Last(history').actor = "tool"
           /\ Last(history').outcome = "error" ]_vars

\* run has been left by the HITLPendingError of the queued channel.
PendingRaised ==
    /\ pc = "raised"
    /\ exception # None
    /\ Get(exception).type = "HITLPendingError"

\* C32: when the queued HITL channel signals pending, the exception leaves
\* run with the state as the HITL branch had it: history ends with the
\* agent/hitl_request entry of the question and no response entry,
\* final_response is what run was given (null for a fresh state), the step
\* counter is the decision's, and the decision's audit entry has no outcome.
C32_PendingState ==
    PendingRaised =>
        /\ Get(exception).request = decision.hitl_request
        /\ decision.decision_type = HITL
        /\ history = snapshot.history \o <<RequestEntry>>
        /\ final_response = initial_final
        /\ step = snapshot.step
        /\ Last(entries).step = step
        /\ Last(entries).decision_output.decision_type = HITL
        /\ Last(entries).outcome = None

C32_Witness ==
    /\ PendingRaised
    /\ final_response = None
    /\ step = 1
    /\ Len(history) = 2
    /\ history[1].actor = "tool"
    /\ Last(history).action = "hitl_request"
    /\ Len(entries) = 2

\* C33: the step counter is local to one invocation of run: every invocation
\* starts at step 0, whatever the history holds and whatever the invocations
\* before did, so the max_steps bound holds per invocation: over all
\* invocations the oracle is called up to max_steps times each.
C33_StepPerInvocation ==
    /\ [][ runs' # runs =>
             /\ step' = 0
             /\ pc' = "loop"
             /\ history' = history
             /\ entries' = entries ]_vars
    /\ [](step <= max_steps)
    /\ [](oracle_calls <= runs * max_steps)

C33_Witness ==
    /\ runs = 2
    /\ max_steps = 1
    /\ pc = "decided"
    /\ step = 0
    /\ oracle_calls = 2
    /\ Len(history) = 1
    /\ history[1].step = 1

\* Several invocations of run with room for two iterations each.
RelogInit == InitWith({MaxSteps}, {"callback", "async"})

RelogSpec == RelogInit /\ [][ResumeNext]_vars

\* C34: over any number of run invocations on one Orchestrator, log_outcome
\* attaches an outcome only to the audit entry log_decision created in the
\* same iteration, the last one: no entry before it gets or changes an outcome.
C34_OutcomeOnOwnEntry ==
    [][ \A i \in DOMAIN entries :
           i < Len(entries) => entries'[i] = entries[i] ]_vars

\* The number of iterations the first i history entries have completed: a
\* tool entry and a human entry each close one.
Completed(i) ==
    Cardinality({k \in 1 .. i : history[k].actor \in {"tool", "human"}})

\* C35: in the history of one run started from an empty history the step
\* fields are non-decreasing and lie between 0 and max_steps; a tool entry
\* carries the step after the increment, and the two entries of a HITL
\* exchange carry the same step, the one before the increment.
C35_HistorySteps ==
    /\ \A i \in DOMAIN history : history[i].step \in 0 .. max_steps
    /\ \A i, j \in DOMAIN history : i <= j => history[i].step <= history[j].step
    /\ \A i \in DOMAIN history :
          /\ history[i].actor = "tool" => history[i].step = Completed(i)
          /\ history[i].actor = "agent" => history[i].step = Completed(i)
          /\ history[i].actor = "human" =>
                /\ i > 1
                /\ history[i - 1].actor = "agent"
                /\ history[i].step = history[i - 1].step
                /\ history[i].step = Completed(i) - 1
    /\ pc = "tool_recorded" => Last(history).step = snapshot.step + 1
    /\ pc = "hitl_recorded" => Last(history).step = snapshot.step

C35_Witness ==
    /\ pc = "returned"
    /\ Len(history) = 3
    /\ history[1].actor = "agent" /\ history[1].step = 0
    /\ history[2].actor = "human" /\ history[2].step = 0
    /\ history[3].actor = "tool" /\ history[3].step = 2

\* The oracle calls of the run that returned a decision: all but a failed one.
DecisionsReturned ==
    IF exception # None /\ Get(exception).type = "OracleError"
    THEN oracle_calls - 1
    ELSE oracle_calls

\* C36: in one run on a fresh Orchestrator the audit log gets exactly one
\* entry per oracle call that returned a decision, the steps of the entries
\* are 0, 1, 2, ... in append order, and reaching the step bound adds none.
C36_OneEntryPerDecision ==
    /\ Len(entries) = IF pc = "decided" THEN DecisionsReturned - 1
                                         ELSE DecisionsReturned
    /\ \A i \in DOMAIN entries : entries[i].step = i - 1
    /\ (pc = "returned" /\ decision.decision_type # FINAL) =>
          /\ Len(entries) = max_steps
          /\ oracle_calls = max_steps

C36_Witness ==
    /\ pc = "returned"
    /\ decision.decision_type # FINAL
    /\ max_steps = 2
    /\ Len(entries) = 2
    /\ entries[2].step = 1
    /\ entries[1].decision_output.decision_type = HITL
    /\ entries[2].decision_output.decision_type = TOOL

\* C37: the audit entry of a Final decision keeps outcome None: neither the
\* Final branch nor the exhaustion branch calls log_outcome, so the step that
\* ends a run leaves the log and its file as they are and no entry of a Final
\* decision ever has an outcome; and a run that ends by exhaustion has not
\* invoked the stream handler's on_complete.
C37_FinalEntryKeepsNone ==
    /\ [][ pc' = "returned" =>
             /\ entries' = entries
             /\ log_file' = log_file
             /\ (decision.decision_type # FINAL => completed' = completed) ]_vars
    /\ [](\A i \in DOMAIN entries :
             entries[i].decision_output.decision_type = FINAL =>
                 entries[i].outcome = None)

\* C38: log_outcome(s, ...) called when no audit entry has step s is a silent
\* no-op: it raises nothing, leaves every entry in memory as it is and does
\* not rewrite the session file, so the outcome is recorded nowhere.
C38_MissingStepNoOp ==
    [][ (now' = now /\ find_entry(entries, step') = 0) =>
           /\ entries' = entries
           /\ log_file' = log_file
           /\ exception' = None ]_vars

C38_Witness ==
    /\ log_dir
    /\ Len(entries) = 1
    /\ entries[1].step = 0
    /\ entries[1].outcome = None
    /\ step = 1
    /\ log_file = <<>>
    /\ exception = None

====
